---- MODULE Spec2Model ----
(***************************************************************************)
(* Model of scripts/forum_api.py: the forum registry and resolve_forum,    *)
(* the GraphQL transport graphql_query, the entity fetchers with their     *)
(* recency filter, search_tags, the two activity aggregators, the text     *)
(* and JSON presentation, and main()'s dispatch and exit codes.            *)
(*                                                                         *)
(* Strings the program inspects (forum identifiers, slugs, tag names,      *)
(* search queries) are sequences of one-character strings, so lower(),     *)
(* strip() and substring tests are computed.  Strings it only passes       *)
(* through (display names, URLs) are TLA+ strings.                         *)
(***************************************************************************)
EXTENDS Integers, Sequences, FiniteSets, TLC

VARIABLES pc, args, env, net, loc, activity, stdout, exit_code, err, call

vars == <<pc, args, env, net, loc, activity, stdout, exit_code, err, call>>

\* Python's None (a record, so that it compares with any record value)
None == [none |-> TRUE]

Min(a, b) == IF a <= b THEN a ELSE b

Max(a, b) == IF a >= b THEN a ELSE b

(***************************************************************************)
(* str methods                                                             *)
(***************************************************************************)
UpperLetters == <<"A","B","C","D","E","F","G","H","I","J","K","L","M","N","O","P","Q","R","S","T","U","V","W","X","Y","Z">>

LowerLetters == <<"a","b","c","d","e","f","g","h","i","j","k","l","m","n","o","p","q","r","s","t","u","v","w","x","y","z">>

Whitespace == {" ", "\t", "\n"}

LowerChar(c) ==
    IF \E i \in 1..Len(UpperLetters) : UpperLetters[i] = c
    THEN LowerLetters[CHOOSE i \in 1..Len(UpperLetters) : UpperLetters[i] = c]
    ELSE c

UpperChar(c) ==
    IF \E i \in 1..Len(LowerLetters) : LowerLetters[i] = c
    THEN UpperLetters[CHOOSE i \in 1..Len(LowerLetters) : LowerLetters[i] = c]
    ELSE c

\* str.lower()
StrLower(s) == [i \in 1..Len(s) |-> LowerChar(s[i])]

StrUpper(s) == [i \in 1..Len(s) |-> UpperChar(s[i])]

\* str.strip(): drops the leading and the trailing run of whitespace
StrStrip(s) ==
    LET inked == {i \in 1..Len(s) : s[i] \notin Whitespace}
    IN  IF inked = {} THEN <<>>
        ELSE LET lo == CHOOSE i \in inked : \A j \in inked : i <= j
                 hi == CHOOSE i \in inked : \A j \in inked : j <= i
             IN  SubSeq(s, lo, hi)

\* `needle in haystack` on strings
StrContains(haystack, needle) ==
    \E k \in 0..(Len(haystack) - Len(needle)) :
        \A i \in 1..Len(needle) : haystack[k + i] = needle[i]

\* `x in list`
InList(x, list) == \E i \in 1..Len(list) : list[i] = x

\* seq[:limit], Python's slice with a negative limit counting from the end
PySliceTo(seq, limit) ==
    LET stop == IF limit >= 0 THEN Min(limit, Len(seq)) ELSE Max(Len(seq) + limit, 0)
    IN  SubSeq(seq, 1, stop)

(***************************************************************************)
(* FORUMS and resolve_forum                                                *)
(***************************************************************************)
FORUMS ==
    << [key |-> <<"l","e","s","s","w","r","o","n","g">>,
        name |-> "LessWrong",
        url |-> "https://www.lesswrong.com/graphql",
        base_url |-> "https://www.lesswrong.com",
        aliases |-> << <<"l","w">>, <<"l","e","s","s","-","w","r","o","n","g">> >>],
       [key |-> <<"e","a","f","o","r","u","m">>,
        name |-> "EA Forum",
        url |-> "https://forum.effectivealtruism.org/graphql",
        base_url |-> "https://forum.effectivealtruism.org",
        aliases |-> << <<"e","a">>,
                       <<"e","f","f","e","c","t","i","v","e","-","a","l","t","r","u","i","s","m">>,
                       <<"e","a","-","f","o","r","u","m">> >>],
       [key |-> <<"a","l","i","g","n","m","e","n","t","f","o","r","u","m">>,
        name |-> "Alignment Forum",
        url |-> "https://www.alignmentforum.org/graphql",
        base_url |-> "https://www.alignmentforum.org",
        aliases |-> << <<"a","f">>,
                       <<"a","l","i","g","n","m","e","n","t">>,
                       <<"a","l","i","g","n","m","e","n","t","-","f","o","r","u","m">> >>] >>

ForumKeys == [i \in 1..Len(FORUMS) |-> FORUMS[i].key]

\* FORUMS[key] for a canonical key
ForumConfig(key) == FORUMS[CHOOSE i \in 1..Len(FORUMS) : FORUMS[i].key = key]

\* `key in FORUMS`
IsForumKey(x) == \E i \in 1..Len(FORUMS) : FORUMS[i].key = x

Ok(v) == [ok |-> TRUE, value |-> v]

Raise(type, detail) == [ok |-> FALSE, type |-> type, detail |-> detail]

\* resolve_forum without the lower().strip() normalisation
resolve_forum_verbatim(forum_input) ==
    LET x == forum_input
        hits == {i \in 1..Len(FORUMS) : InList(x, FORUMS[i].aliases)}
    IN  IF IsForumKey(x) THEN Ok(x)
        ELSE IF hits # {}
        THEN Ok(FORUMS[CHOOSE i \in hits : \A j \in hits : i <= j].key)
        ELSE Raise("ValueError", [msg |-> "Unknown forum", input |-> x, valid |-> ForumKeys])

\* resolve_forum, lines 50-63
resolve_forum(forum_input) ==
    LET x == StrStrip(StrLower(forum_input))
        hits == {i \in 1..Len(FORUMS) : InList(x, FORUMS[i].aliases)}
    IN  IF IsForumKey(x) THEN Ok(x)
        ELSE IF hits # {}
        THEN Ok(FORUMS[CHOOSE i \in hits : \A j \in hits : i <= j].key)
        ELSE Raise("ValueError", [msg |-> "Unknown forum", input |-> x, valid |-> ForumKeys])

\* get_forum_url
get_forum_url(forum) ==
    LET r == resolve_forum(forum)
    IN  IF r.ok THEN Ok(ForumConfig(r.value).url) ELSE r

(***************************************************************************)
(* Timestamps.  The clock counts ticks; wall is a wall-clock reading, off  *)
(* the UTC offset it was read under, both in ticks.  A postedAt string is  *)
(* [wall, suffix] with suffix "Z", an explicit offset, or none.  The clock *)
(* only moves while a request is in flight and never runs backwards.       *)
(***************************************************************************)
\* clock ticks per day (the resolution of the modelled clock)
TicksPerDay == 2

\* timedelta(days=n)
timedelta(days) == days * TicksPerDay

SuffixZ == [kind |-> "Z", off |-> 0]

SuffixOffset(o) == [kind |-> "offset", off |-> o]

SuffixNone == [kind |-> "none", off |-> 0]

\* datetime.fromisoformat(s.replace("Z", "+00:00")) that keeps the wall clock
\* and forgets the offset
parse_posted_at_wall_only(s) ==
    [wall |-> s.wall, aware |-> s.suffix.kind # "none", off |-> 0]

\* datetime.fromisoformat(s.replace("Z", "+00:00"))
parse_posted_at(s) ==
    IF s.suffix.kind = "Z" THEN [wall |-> s.wall, aware |-> TRUE, off |-> 0]
    ELSE IF s.suffix.kind = "offset" THEN [wall |-> s.wall, aware |-> TRUE, off |-> s.suffix.off]
    ELSE [wall |-> s.wall, aware |-> FALSE, off |-> 0]

\* the instant of an aware datetime
Instant(dt) == dt.wall - dt.off

\* datetime.now().astimezone(): aware, in the local zone
now_astimezone(e) == [wall |-> e.now, aware |-> TRUE, off |-> e.off]

\* datetime.now(): naive local wall clock
now_naive(e) == [wall |-> e.now, aware |-> FALSE, off |-> 0]

\* aware_datetime - timedelta
minus_timedelta(dt, delta) == [dt EXCEPT !.wall = @ - delta]

\* a >= b on datetimes raises TypeError when one is naive and the other aware
Comparable(a, b) == a.aware = b.aware

dt_ge(a, b) == IF a.aware THEN Instant(a) >= Instant(b) ELSE a.wall >= b.wall

\* `if since_date:` -- None is falsy, every datetime is truthy
Truthy(since_date) == since_date # None

RECURSIVE Comprehension(_, _)
\* [p for p in items if parse(p["postedAt"]) >= since_date], on items already
\* known to compare without raising
Comprehension(items, since_date) ==
    IF items = <<>> THEN <<>>
    ELSE (IF dt_ge(parse_posted_at(Head(items).postedAt), since_date) THEN <<Head(items)>> ELSE <<>>)
         \o Comprehension(Tail(items), since_date)

\* the comprehension raises TypeError at the first item whose parsed postedAt
\* does not compare with since_date
ComprehensionRaises(items, since_date) ==
    \E i \in 1..Len(items) : ~Comparable(parse_posted_at(items[i].postedAt), since_date)

TypeErrorNaiveAware == Raise("TypeError", "can't compare offset-naive and offset-aware datetimes")

\* the comprehension with > in place of >=
RECURSIVE ComprehensionStrict(_, _)
ComprehensionStrict(items, since_date) ==
    IF items = <<>> THEN <<>>
    ELSE (IF Instant(parse_posted_at(Head(items).postedAt)) > Instant(since_date) THEN <<Head(items)>> ELSE <<>>)
         \o ComprehensionStrict(Tail(items), since_date)

\* the date filter with > in place of >=
filter_strict(items, since_date) ==
    IF ~Truthy(since_date) THEN Ok(items)
    ELSE IF ComprehensionRaises(items, since_date) THEN TypeErrorNaiveAware
    ELSE Ok(ComprehensionStrict(items, since_date))

\* get_user_posts, lines 172-179: `if since_date: posts = [...]`
user_posts_filter(posts, since_date) ==
    IF ~Truthy(since_date) THEN Ok(posts)
    ELSE IF ComprehensionRaises(posts, since_date) THEN TypeErrorNaiveAware
    ELSE Ok(Comprehension(posts, since_date))

\* get_user_comments, lines 216-223
user_comments_filter(comments, since_date) ==
    IF ~Truthy(since_date) THEN Ok(comments)
    ELSE IF ComprehensionRaises(comments, since_date) THEN TypeErrorNaiveAware
    ELSE Ok(Comprehension(comments, since_date))

\* get_posts_by_tag, lines 352-359
tag_posts_filter(posts, since_date) ==
    IF ~Truthy(since_date) THEN Ok(posts)
    ELSE IF ComprehensionRaises(posts, since_date) THEN TypeErrorNaiveAware
    ELSE Ok(Comprehension(posts, since_date))

(***************************************************************************)
(* graphql_query: everything after requests.post returns.  A reply is      *)
(* either a connection failure or [status, decodes, body]; body is the     *)
(* decoded JSON object, a record with optional fields errors and data.     *)
(***************************************************************************)
ConnectionFailed == [failed |-> TRUE]

\* response.raise_for_status() raises for 4xx and 5xx
RaisesForStatus(status) == 400 <= status /\ status < 600

\* graphql_query without the `"errors" in data` test
graphql_query_ignores_errors(reply) ==
    IF reply = ConnectionFailed THEN Raise("ConnectionError", "connection failed")
    ELSE IF RaisesForStatus(reply.status) THEN Raise("HTTPError", reply.status)
    ELSE IF ~reply.decodes THEN Raise("JSONDecodeError", "body is not JSON")
    ELSE IF "data" \in DOMAIN reply.body THEN Ok(reply.body.data)
    ELSE Ok(<<>>)

\* graphql_query, lines 103-109
graphql_query(reply) ==
    IF reply = ConnectionFailed THEN Raise("ConnectionError", "connection failed")
    ELSE IF RaisesForStatus(reply.status) THEN Raise("HTTPError", reply.status)
    ELSE IF ~reply.decodes THEN Raise("JSONDecodeError", "body is not JSON")
    ELSE IF "errors" \in DOMAIN reply.body
    THEN Raise("Exception", [msg |-> "GraphQL errors", errors |-> reply.body.errors])
    ELSE IF "data" \in DOMAIN reply.body THEN Ok(reply.body.data)
    ELSE Ok(<<>>)

\* data.get(outer, {}).get(inner, default)
GetNested(data, outer, inner, default) ==
    IF outer \in DOMAIN data /\ inner \in DOMAIN data[outer] THEN data[outer][inner] ELSE default

(***************************************************************************)
(* Entity fetchers, from the reply on                                      *)
(***************************************************************************)
get_user_by_slug(slug, reply) ==
    LET r == graphql_query(reply)
    IN  IF ~r.ok THEN r
        ELSE LET user == GetNested(r.value, "user", "result", None)
             IN  IF user = None THEN Raise("Exception", [msg |-> "User not found", slug |-> slug])
                 ELSE Ok(user)

\* get_user_posts that answers a failed fetch with an empty list
get_user_posts_swallow(since_date, reply) ==
    LET r == graphql_query(reply)
    IN  IF ~r.ok THEN Ok(<<>>)
        ELSE user_posts_filter(GetNested(r.value, "posts", "results", <<>>), since_date)

get_user_posts(since_date, reply) ==
    LET r == graphql_query(reply)
    IN  IF ~r.ok THEN r ELSE user_posts_filter(GetNested(r.value, "posts", "results", <<>>), since_date)

get_user_comments(since_date, reply) ==
    LET r == graphql_query(reply)
    IN  IF ~r.ok THEN r ELSE user_comments_filter(GetNested(r.value, "comments", "results", <<>>), since_date)

get_posts_by_tag(since_date, reply) ==
    LET r == graphql_query(reply)
    IN  IF ~r.ok THEN r ELSE tag_posts_filter(GetNested(r.value, "posts", "results", <<>>), since_date)

get_tag_by_slug(slug, reply) ==
    LET r == graphql_query(reply)
    IN  IF ~r.ok THEN r
        ELSE LET tags == GetNested(r.value, "tags", "results", <<>>)
                 slug_lower == StrLower(slug)
                 hits == {i \in 1..Len(tags) : StrLower(tags[i].slug) = slug_lower}
             IN  IF hits # {} THEN Ok(tags[CHOOSE i \in hits : \A j \in hits : i <= j])
                 ELSE Raise("Exception", [msg |-> "Tag/topic not found", slug |-> slug])

RECURSIVE Matching(_, _)
\* [t for t in tags if query_lower in t["name"].lower()]
Matching(tags, query_lower) ==
    IF tags = <<>> THEN <<>>
    ELSE (IF StrContains(StrLower(Head(tags).name), query_lower) THEN <<Head(tags)>> ELSE <<>>)
         \o Matching(Tail(tags), query_lower)

search_tags(query_str, limit, reply) ==
    LET r == graphql_query(reply)
    IN  IF ~r.ok THEN r
        ELSE LET tags == GetNested(r.value, "tags", "results", <<>>)
             IN  Ok(PySliceTo(Matching(tags, StrLower(query_str)), limit))

(***************************************************************************)
(* Presentation: standard output is a sequence of lines, each a record     *)
(***************************************************************************)
\* the number of comments text mode shows: comments[:10], len(comments) > 10
COMMENTS_SHOWN == 10

\* datetime.isoformat(): the wall clock, with the offset when aware
isoformat(dt) ==
    [wall |-> dt.wall, suffix |-> IF dt.aware THEN SuffixOffset(dt.off) ELSE SuffixNone]

\* FORUMS.get(activity.get("forum", "lesswrong"), {}).get("name", "Forum")
forum_name(act) ==
    IF IsForumKey(act.forum) THEN ForumConfig(act.forum).name ELSE "Forum"

PostLines(posts) == [i \in 1..Len(posts) |-> [kind |-> "post", id |-> posts[i]._id]]

CommentLines(comments) ==
    [i \in 1..Len(comments) |-> [kind |-> "comment", id |-> comments[i]._id]]

\* the comment block with >= in the test for the trailing line
comment_block_more_at_cap(comments) ==
    <<[kind |-> "heading", what |-> "Comments", count |-> Len(comments)]>>
    \o (IF Len(comments) > 0
        THEN CommentLines(PySliceTo(comments, COMMENTS_SHOWN))
             \o (IF Len(comments) >= COMMENTS_SHOWN
                 THEN <<[kind |-> "more", count |-> Len(comments) - COMMENTS_SHOWN]>>
                 ELSE <<>>)
        ELSE <<[kind |-> "empty", what |-> "comments"]>>)

\* print_user_activity, lines 413-427
comment_block(comments) ==
    <<[kind |-> "heading", what |-> "Comments", count |-> Len(comments)]>>
    \o (IF Len(comments) > 0
        THEN CommentLines(PySliceTo(comments, COMMENTS_SHOWN))
             \o (IF Len(comments) > COMMENTS_SHOWN
                 THEN <<[kind |-> "more", count |-> Len(comments) - COMMENTS_SHOWN]>>
                 ELSE <<>>)
        ELSE <<[kind |-> "empty", what |-> "comments"]>>)

\* print_user_activity / print_topic_activity, the posts block
post_block(what, posts) ==
    <<[kind |-> "heading", what |-> what, count |-> Len(posts)]>>
    \o (IF Len(posts) > 0 THEN PostLines(posts) ELSE <<[kind |-> "empty", what |-> "posts"]>>)

print_user_activity(act) ==
    <<[kind |-> "banner", forum_name |-> forum_name(act), subject |-> act.user.slug]>>
    \o post_block("Posts", act.posts)
    \o comment_block(act.comments)

print_topic_activity(act) ==
    <<[kind |-> "banner", forum_name |-> forum_name(act), subject |-> act.topic.name]>>
    \o post_block("Recent posts", act.posts)

\* print(json.dumps(value, ...)): one document
JsonLine(value) == [kind |-> "json", value |-> value]

\* main, command list-forums
list_forums_lines ==
    <<[kind |-> "title", text |-> "Available forums:"]>>
    \o [i \in 1..Len(FORUMS) |->
          [kind |-> "forum", key |-> FORUMS[i].key, aliases |-> FORUMS[i].aliases,
           name |-> FORUMS[i].name, base_url |-> FORUMS[i].base_url]]

\* main, command search-topics
search_lines(query, topics) ==
    <<[kind |-> "title", text |-> "Topics matching", query |-> query]>>
    \o [i \in 1..Len(topics) |-> [kind |-> "topic", id |-> topics[i]._id]]

\* main, command posts in text mode
posts_lines(posts) ==
    <<[kind |-> "title", text |-> "Posts by", count |-> None]>> \o PostLines(posts)

\* main, command comments in text mode
comments_lines(comments) ==
    <<[kind |-> "title", text |-> "Comments by", count |-> Len(comments)]>>
    \o CommentLines(PySliceTo(comments, COMMENTS_SHOWN))

\* main's two except clauses
ErrorLine(e) ==
    [kind |-> "error", prefix |-> IF e.type = "HTTPError" THEN "HTTP Error" ELSE "Error", error |-> e]

(***************************************************************************)
(* Inputs: command lines, the environment, and what the upstream returns   *)
(***************************************************************************)
\* the longest page of posts or comments the upstream is given to return
MaxPage == 2

\* the longest page of tags
MaxTags == 2

\* a request takes up to this many clock ticks
MaxDelay == 1

\* the wall clock when the process starts
Now0 == 10

\* how far past COMMENTS_SHOWN the long comment pages go
MaxExtra == 5

\* UTC offsets of the local zone, in ticks
TzOffsets == {0, 1}

Lesswrong == <<"l","e","s","s","w","r","o","n","g">>

\* --forum values: the default canonical key, an alias, an unregistered name
ForumArgs == {Lesswrong, <<"e","a">>, <<"x","x">>}

Alice == <<"a","l","i","c","e">>

DaysArgs == {1, 2}

\* --limit is any int
LimitArgs == -1..2

TagPool ==
    { [_id |-> "t1", name |-> <<"A","I"," ","S","a","f","e","t","y">>,
       slug |-> <<"a","i","-","s","a","f","e","t","y">>],
      [_id |-> "t2", name |-> <<"S","a","f","e","t","y">>, slug |-> <<"S","a","f","e","t","y">>],
      [_id |-> "t3", name |-> <<"E","t","h","i","c","s">>, slug |-> <<"e","t","h","i","c","s">>] }

TagSlugArgs == {<<"A","I","-","s","a","f","e","t","y">>, <<"s","a","f","e","t","y">>, <<"n","o">>}

QueryArgs == {<<>>, <<"s","a","f","e","t","y">>, <<"A","i">>, <<"z">>}

NoCommand == ""

BaseArgs ==
    [command |-> NoCommand, forum |-> Lesswrong, slug |-> <<>>, days |-> 7, json |-> FALSE,
     limit |-> 10, query |-> <<>>]

Invocations ==
    {BaseArgs}
    \cup {[BaseArgs EXCEPT !.command = "list-forums", !.forum = f] : f \in ForumArgs}
    \cup {[BaseArgs EXCEPT !.command = "user", !.forum = f, !.slug = Alice] : f \in ForumArgs}
    \cup {[BaseArgs EXCEPT !.command = c, !.forum = f, !.slug = Alice, !.days = d, !.json = j] :
            c \in {"user-activity", "posts", "comments"}, f \in ForumArgs, d \in DaysArgs,
            j \in BOOLEAN}
    \cup {[BaseArgs EXCEPT !.command = "topic", !.forum = f, !.slug = t] :
            f \in ForumArgs, t \in TagSlugArgs}
    \cup {[BaseArgs EXCEPT !.command = "topic-activity", !.forum = f, !.slug = t, !.days = d,
                           !.json = j] :
            f \in ForumArgs, t \in TagSlugArgs, d \in DaysArgs, j \in BOOLEAN}
    \cup {[BaseArgs EXCEPT !.command = "search-topics", !.forum = f, !.query = q, !.limit = l] :
            f \in ForumArgs, q \in QueryArgs, l \in LimitArgs}

SeqsUpTo(S, n) == UNION {[1..k -> S] : k \in 0..n}

\* postedAt strings: a few days old with Z; the same wall clock written with
\* an offset, so one tick earlier; recent without any zone
Stamps ==
    { [wall |-> Now0 - 3, suffix |-> SuffixZ],
      [wall |-> Now0 - 3, suffix |-> SuffixOffset(1)],
      [wall |-> Now0 - 1, suffix |-> SuffixNone] }

MkPage(stamps) == [i \in 1..Len(stamps) |-> [_id |-> i, postedAt |-> stamps[i]]]

ItemPages == {MkPage(st) : st \in SeqsUpTo(Stamps, MaxPage)}

\* pages longer than text mode shows, of comments posted as the process starts
LongPages ==
    {MkPage([i \in 1..n |-> [wall |-> Now0, suffix |-> SuffixZ]]) :
        n \in COMMENTS_SHOWN..(COMMENTS_SHOWN + MaxExtra)}

TagPages == SeqsUpTo(TagPool, MaxTags)

UserRecord == [_id |-> "u1", slug |-> Alice, karma |-> 500]

Boom == <<[message |-> "boom"]>>

HttpReply(status, decodes, body) == [status |-> status, decodes |-> decodes, body |-> body]

\* replies that carry no usable data; d is a payload sent along with errors
BadReplies(d) ==
    { ConnectionFailed,
      HttpReply(500, FALSE, <<>>),
      HttpReply(500, TRUE, [errors |-> Boom]),
      HttpReply(400, TRUE, [errors |-> Boom, data |-> d]),
      HttpReply(200, TRUE, [errors |-> Boom]),
      HttpReply(200, TRUE, [errors |-> Boom, data |-> d]),
      HttpReply(200, FALSE, <<>>),
      HttpReply(200, TRUE, <<>>) }

GoodReplies(payloads) == {HttpReply(200, TRUE, [data |-> d]) : d \in payloads}

UserPayloads == {[user |-> [result |-> UserRecord]], [user |-> [result |-> None]]}

UserReplies == GoodReplies(UserPayloads) \cup BadReplies([user |-> [result |-> UserRecord]])

PostsPayloads == {[posts |-> [results |-> pg]] : pg \in ItemPages}

PostsReplies == GoodReplies(PostsPayloads) \cup BadReplies([posts |-> [results |-> <<>>]])

CommentsPayloads == {[comments |-> [results |-> pg]] : pg \in ItemPages \cup LongPages}

CommentsReplies == GoodReplies(CommentsPayloads) \cup BadReplies([comments |-> [results |-> <<>>]])

TagsPayloads == {[tags |-> [results |-> pg]] : pg \in TagPages}

TagsReplies == GoodReplies(TagsPayloads) \cup BadReplies([tags |-> [results |-> <<>>]])

(***************************************************************************)
(* One invocation of main().  The program blocks only inside requests.post, *)
(* so an action is the code run from one such point to the next: Start up  *)
(* to the first request (or the exit), and one Recv action per fetcher     *)
(* from its reply to the next request (or the exit).                       *)
(***************************************************************************)
NoLocals == [user |-> None, tag |-> None, since_date |-> None, posts |-> None]

NoCall == [fn |-> "none"]

Init ==
    /\ pc = "main"
    /\ args \in Invocations
    /\ env \in [now : {Now0}, off : TzOffsets]
    /\ net = [sent |-> <<>>, inflight |-> 0, durs |-> <<>>, last |-> None]
    /\ loc = NoLocals
    /\ activity = None
    /\ stdout = <<>>
    /\ exit_code = None
    /\ err = None
    /\ call = NoCall

\* sys.exit(code), or falling off the end of main (code 0), after printing
Finish(code, e, lines, act) ==
    /\ pc' = "done"
    /\ exit_code' = [code |-> code]
    /\ err' = e
    /\ stdout' = stdout \o lines
    /\ activity' = act

\* the except clauses without their sys.exit(1)
Fail_exit_zero(e) == Finish(0, e, <<ErrorLine(e)>>, None)

\* an exception reaches main's except clauses
Fail(e) == Finish(1, e, <<ErrorLine(e)>>, None)

\* graphql_query posting the same request a second time before it reads the
\* response
Post_resend(n, kind, variables, waitpc) ==
    LET u == get_forum_url(args.forum)
        req == [kind |-> kind, url |-> u.value, variables |-> variables]
    IN  IF u.ok
        THEN /\ net' = [n EXCEPT !.sent = Append(Append(@, req), req),
                                 !.inflight = @ + 1]
             /\ pc' = waitpc
             /\ UNCHANGED <<exit_code, err, stdout, activity>>
        ELSE /\ net' = n
             /\ Fail(u)

\* graphql_query up to and including requests.post; n is the network state
\* the call starts from
Post(n, kind, variables, waitpc) ==
    LET u == get_forum_url(args.forum)
    IN  IF u.ok
        THEN /\ net' = [n EXCEPT !.sent = Append(@, [kind |-> kind, url |-> u.value,
                                                     variables |-> variables]),
                                 !.inflight = @ + 1]
             /\ pc' = waitpc
             /\ UNCHANGED <<exit_code, err, stdout, activity>>
        ELSE /\ net' = n
             /\ Fail(u)

\* requests.post returns (or raises) after dt ticks: the request is no longer in
\* flight; last keeps the reply and what graphql_query made of it
Received(reply, dt) ==
    [net EXCEPT !.inflight = @ - 1,
                !.durs = Append(@, dt),
                !.last = [reply |-> reply, result |-> graphql_query(reply)]]

Elapse(dt) == [env EXCEPT !.now = @ + dt]

\* since_date computed from a clock reading that adds the window instead of
\* subtracting it
since_date_added(e, days) ==
    [now_astimezone(e) EXCEPT !.wall = @ + timedelta(days)]

\* since_date = datetime.now().astimezone() - timedelta(days=days)
since_date_of(e, days) == minus_timedelta(now_astimezone(e), timedelta(days))

\* fetch_user_activity's return value
user_activity(forum, user, posts, comments, since_date, e) ==
    [forum |-> forum, user |-> user, posts |-> posts, comments |-> comments,
     since_date |-> isoformat(since_date), fetched_at |-> isoformat(now_naive(e))]

\* fetch_topic_activity's return value
topic_activity(forum, tag, posts, since_date, e) ==
    [forum |-> forum, topic |-> tag, posts |-> posts,
     since_date |-> isoformat(since_date), fetched_at |-> isoformat(now_naive(e))]

UserCommands == {"user", "user-activity", "posts", "comments"}

TopicCommands == {"topic", "topic-activity"}

\* main() from parse_args to the first request, or to the exit
Start ==
    /\ pc = "main"
    /\ IF args.command = NoCommand
       THEN Finish(1, None, <<[kind |-> "help"]>>, None) /\ net' = net
       ELSE IF args.command = "list-forums"
       THEN Finish(0, None, list_forums_lines, None) /\ net' = net
       ELSE IF args.command \in UserCommands
       THEN Post(net, "user", [slug |-> args.slug], "wait_user")
       ELSE IF args.command \in TopicCommands
       THEN Post(net, "tags", [limit |-> 500], "wait_tag")
       ELSE Post(net, "tags", [limit |-> 200], "wait_search")
    /\ UNCHANGED <<args, env, loc, call>>

\* get_user_by_slug returns into main (user), fetch_user_activity, or main
\* (posts, comments), which go on to the next request
RecvUser ==
    /\ pc = "wait_user"
    /\ \E reply \in UserReplies, dt \in 0..MaxDelay :
         LET e2 == Elapse(dt)
             n == Received(reply, dt)
             r == get_user_by_slug(args.slug, reply)
         IN  /\ env' = e2
             /\ IF ~r.ok THEN Fail(r) /\ net' = n /\ loc' = loc
                ELSE IF args.command = "user"
                THEN /\ Finish(0, None, <<JsonLine(r.value)>>, None)
                     /\ net' = n
                     /\ loc' = [loc EXCEPT !.user = r.value]
                ELSE /\ loc' = [loc EXCEPT !.user = r.value,
                                           !.since_date = since_date_of(e2, args.days)]
                     /\ IF args.command = "comments"
                        THEN Post(n, "comments", [userId |-> r.value._id, limit |-> 100],
                                  "wait_comments")
                        ELSE Post(n, "posts", [userId |-> r.value._id, limit |-> 50],
                                  "wait_posts")
    /\ UNCHANGED <<args, call>>

\* get_user_posts returns into fetch_user_activity or main (posts)
RecvPosts ==
    /\ pc = "wait_posts"
    /\ \E reply \in PostsReplies, dt \in 0..MaxDelay :
         LET e2 == Elapse(dt)
             n == Received(reply, dt)
             r == get_user_posts(loc.since_date, reply)
         IN  /\ env' = e2
             /\ IF ~r.ok THEN Fail(r) /\ net' = n /\ loc' = loc
                ELSE IF args.command = "posts"
                THEN /\ Finish(0, None,
                               IF args.json THEN <<JsonLine(r.value)>> ELSE posts_lines(r.value),
                               None)
                     /\ net' = n
                     /\ loc' = [loc EXCEPT !.posts = r.value]
                ELSE /\ loc' = [loc EXCEPT !.posts = r.value]
                     /\ Post(n, "comments", [userId |-> loc.user._id, limit |-> 100],
                             "wait_comments")
    /\ UNCHANGED <<args, call>>

\* get_user_comments returns into fetch_user_activity, which returns the
\* report main prints, or into main (comments)
RecvComments ==
    /\ pc = "wait_comments"
    /\ \E reply \in CommentsReplies, dt \in 0..MaxDelay :
         LET e2 == Elapse(dt)
             n == Received(reply, dt)
             r == get_user_comments(loc.since_date, reply)
         IN  /\ env' = e2
             /\ net' = n
             /\ loc' = loc
             /\ IF ~r.ok THEN Fail(r)
                ELSE IF args.command = "comments"
                THEN Finish(0, None,
                            IF args.json THEN <<JsonLine(r.value)>> ELSE comments_lines(r.value),
                            None)
                ELSE LET act == user_activity(args.forum, loc.user, loc.posts, r.value,
                                              loc.since_date, e2)
                     IN  Finish(0, None,
                                IF args.json THEN <<JsonLine(act)>> ELSE print_user_activity(act),
                                act)
    /\ UNCHANGED <<args, call>>

\* get_tag_by_slug returns into main (topic) or fetch_topic_activity
RecvTag ==
    /\ pc = "wait_tag"
    /\ \E reply \in TagsReplies, dt \in 0..MaxDelay :
         LET e2 == Elapse(dt)
             n == Received(reply, dt)
             r == get_tag_by_slug(args.slug, reply)
         IN  /\ env' = e2
             /\ IF ~r.ok THEN Fail(r) /\ net' = n /\ loc' = loc
                ELSE IF args.command = "topic"
                THEN /\ Finish(0, None, <<JsonLine(r.value)>>, None)
                     /\ net' = n
                     /\ loc' = [loc EXCEPT !.tag = r.value]
                ELSE /\ loc' = [loc EXCEPT !.tag = r.value,
                                           !.since_date = since_date_of(e2, args.days)]
                     /\ Post(n, "tag_posts", [tagId |-> r.value._id, limit |-> 50],
                             "wait_tag_posts")
    /\ UNCHANGED <<args, call>>

\* get_posts_by_tag returns into fetch_topic_activity, which returns the
\* report main prints
RecvTagPosts ==
    /\ pc = "wait_tag_posts"
    /\ \E reply \in PostsReplies, dt \in 0..MaxDelay :
         LET e2 == Elapse(dt)
             n == Received(reply, dt)
             r == get_posts_by_tag(loc.since_date, reply)
         IN  /\ env' = e2
             /\ net' = n
             /\ loc' = loc
             /\ IF ~r.ok THEN Fail(r)
                ELSE LET act == topic_activity(args.forum, loc.tag, r.value, loc.since_date, e2)
                     IN  Finish(0, None,
                                IF args.json THEN <<JsonLine(act)>> ELSE print_topic_activity(act),
                                act)
    /\ UNCHANGED <<args, call>>

\* search_tags returns into main (search-topics)
RecvSearch ==
    /\ pc = "wait_search"
    /\ \E reply \in TagsReplies, dt \in 0..MaxDelay :
         LET e2 == Elapse(dt)
             n == Received(reply, dt)
             r == search_tags(args.query, args.limit, reply)
         IN  /\ env' = e2
             /\ net' = n
             /\ loc' = loc
             /\ IF ~r.ok THEN Fail(r)
                ELSE Finish(0, None, search_lines(args.query, r.value), None)
    /\ UNCHANGED <<args, call>>

Next ==
    \/ Start
    \/ RecvUser
    \/ RecvPosts
    \/ RecvComments
    \/ RecvTag
    \/ RecvTagPosts
    \/ RecvSearch

Spec == Init /\ [][Next]_vars

(***************************************************************************)
(* resolve_forum on its own: called on every registered name in several    *)
(* letter cases and paddings, and on unregistered strings.  call.of is the *)
(* canonical key the input was written from (<<>> for an unregistered      *)
(* string); the program never sees it.                                     *)
(***************************************************************************)
\* everything outside the call under test stays as at process start
Idle ==
    /\ args = BaseArgs
    /\ env = [now |-> Now0, off |-> 0]
    /\ net = [sent |-> <<>>, inflight |-> 0, durs |-> <<>>, last |-> None]
    /\ loc = NoLocals
    /\ activity = None
    /\ stdout = <<>>
    /\ exit_code = None
    /\ err = None

IdleUnchanged == UNCHANGED <<args, env, net, loc, activity, stdout, exit_code, err>>

\* first letter upper, the rest as they are
Capitalized(s) == [i \in 1..Len(s) |-> IF i = 1 THEN UpperChar(s[i]) ELSE s[i]]

\* every second letter upper
Alternating(s) == [i \in 1..Len(s) |-> IF i % 2 = 0 THEN UpperChar(s[i]) ELSE s[i]]

Recasings(s) == {s, StrUpper(s), Capitalized(s), Alternating(s)}

Paddings == {<<>>, <<" ">>, <<"\t", " ">>, <<"\n">>}

Spellings(s) == {l \o c \o r : l \in Paddings, c \in Recasings(s), r \in Paddings}

RegisteredNames(i) == {FORUMS[i].key} \cup {FORUMS[i].aliases[k] : k \in 1..Len(FORUMS[i].aliases)}

\* strings that are no key and no alias once lower-cased and trimmed
UnregisteredNames ==
    { <<>>, <<"x","x">>, <<"l"," ","w">>, <<"e">>, <<"l","e","s","s","w","r","o","n","g","s">>,
      <<"e","a","_","f","o","r","u","m">>, <<"l","w",",","e","a">> }

ResolveCalls ==
    {[fn |-> "resolve_forum", arg |-> x, of |-> FORUMS[i].key, ret |-> None] :
        <<i, x>> \in UNION {{<<j, y>> : y \in UNION {Spellings(nm) : nm \in RegisteredNames(j)}} :
                            j \in 1..Len(FORUMS)}}
    \cup {[fn |-> "resolve_forum", arg |-> x, of |-> <<>>, ret |-> None] :
            x \in UNION {Spellings(nm) : nm \in UnregisteredNames}}

InitResolve == pc = "call" /\ Idle /\ call \in ResolveCalls

ResolveForumCall ==
    /\ pc = "call"
    /\ call.fn = "resolve_forum"
    /\ call' = [call EXCEPT !.ret = resolve_forum(call.arg)]
    /\ pc' = "returned"
    /\ IdleUnchanged

NextResolve == ResolveForumCall

SpecResolve == InitResolve /\ [][NextResolve]_vars

(***************************************************************************)
(* The date filter on its own, through the three fetchers that carry a     *)
(* copy of it: each is called on a reply holding a page, and then again on *)
(* a reply holding what it returned.                                       *)
(***************************************************************************)
\* the longest page handed to the filter
MaxFilterLen == 3

FilterStamps ==
    { [wall |-> 1, suffix |-> SuffixZ],
      [wall |-> 2, suffix |-> SuffixZ],
      [wall |-> 3, suffix |-> SuffixZ],
      [wall |-> 3, suffix |-> SuffixOffset(1)],
      [wall |-> 2, suffix |-> SuffixNone] }

FilterPages == {MkPage(st) : st \in SeqsUpTo(FilterStamps, MaxFilterLen)}

\* since_date values: None (the fetchers' default), aware datetimes in two
\* zones, and a zone-less one
FilterWindows ==
    {None}
    \cup [wall : {0, 2, 4}, aware : {TRUE}, off : {0, 1}]
    \cup {[wall |-> 2, aware |-> FALSE, off |-> 0]}

FilterFns == {"get_user_posts", "get_user_comments", "get_posts_by_tag"}

\* the fetcher fn applied to a 200 reply carrying page
ApplyFetcher(fn, since_date, page) ==
    IF fn = "get_user_posts"
    THEN get_user_posts(since_date, HttpReply(200, TRUE, [data |-> [posts |-> [results |-> page]]]))
    ELSE IF fn = "get_user_comments"
    THEN get_user_comments(since_date,
                           HttpReply(200, TRUE, [data |-> [comments |-> [results |-> page]]]))
    ELSE get_posts_by_tag(since_date, HttpReply(200, TRUE, [data |-> [posts |-> [results |-> page]]]))

InitFilter ==
    /\ pc = "call"
    /\ Idle
    /\ call \in [fn : FilterFns, items : FilterPages, since : FilterWindows, ret : {None},
                 again : {None}]

FilterCall ==
    /\ pc = "call"
    /\ call.fn \in FilterFns
    /\ call' = [call EXCEPT !.ret = ApplyFetcher(call.fn, call.since, call.items)]
    /\ pc' = "returned"
    /\ IdleUnchanged

FilterAgainCall ==
    /\ pc = "returned"
    /\ call.fn \in FilterFns
    /\ call.ret.ok
    /\ call' = [call EXCEPT !.again = ApplyFetcher(call.fn, call.since, call.ret.value)]
    /\ pc' = "refiltered"
    /\ IdleUnchanged

NextFilter == FilterCall \/ FilterAgainCall

SpecFilter == InitFilter /\ [][NextFilter]_vars

(***************************************************************************)
(* Claims                                                                  *)
(***************************************************************************)
Done == pc = "done"

ReportReturned == activity # None

\* the instant a timestamp string with a zone denotes
StampInstant(s) == s.wall - s.suffix.off

StampAware(s) == s.suffix.kind # "none"

\* every post and comment of a report
ReportItems ==
    IF ~ReportReturned THEN {}
    ELSE {activity.posts[i] : i \in 1..Len(activity.posts)}
         \cup (IF "comments" \in DOMAIN activity
               THEN {activity.comments[i] : i \in 1..Len(activity.comments)}
               ELSE {})

\* the raw page of the last reply, when it carried one
LastPage ==
    IF net.last = None \/ ~net.last.result.ok THEN <<>>
    ELSE IF "posts" \in DOMAIN net.last.result.value
    THEN GetNested(net.last.result.value, "posts", "results", <<>>)
    ELSE GetNested(net.last.result.value, "comments", "results", <<>>)

\* C1: every post and every comment of a returned report was posted at or
\* after the report's since_date, whatever the fetched pages held.
C1_ReportItemsInWindow ==
    \A it \in ReportItems :
        /\ StampAware(it.postedAt)
        /\ StampAware(activity.since_date)
        /\ StampInstant(it.postedAt) >= StampInstant(activity.since_date)

\* a report came back with an item in it although the last page fetched also
\* held an item older than the window
C1_Witness ==
    /\ ReportReturned
    /\ ReportItems # {}
    /\ \E i \in 1..Len(LastPage) :
          /\ StampAware(LastPage[i].postedAt)
          /\ StampInstant(LastPage[i].postedAt) < StampInstant(activity.since_date)

\* the reply received last, and the kind of request it answered
LastReply == net.last.reply

AnsweredKind == net.sent[Len(net.durs)].kind

HasErrorsArray(reply) ==
    reply # ConnectionFailed /\ reply.decodes /\ "errors" \in DOMAIN reply.body

ErrorStatus(reply) == reply.status >= 400 /\ reply.status <= 599

\* C2 as stated: a body with a top-level errors array makes the transport
\* call fail with the application error carrying that array, whatever the
\* HTTP status.
C2_ErrorsAlwaysApplicationError ==
    (net.last # None /\ HasErrorsArray(LastReply))
        => /\ ~net.last.result.ok
           /\ net.last.result.type = "Exception"
           /\ net.last.result.detail = [msg |-> "GraphQL errors", errors |-> LastReply.body.errors]

\* C2, amended: a body with a top-level errors array never yields data; with
\* a status below 400 the call fails with the application error carrying
\* that array, with a 4xx/5xx status it fails with the HTTP error instead;
\* either way the invocation ends on that error.
C2_ErrorsNeverReturnData ==
    (net.last # None /\ HasErrorsArray(LastReply))
        => /\ ~net.last.result.ok
           /\ IF ErrorStatus(LastReply)
              THEN net.last.result.type = "HTTPError"
              ELSE /\ net.last.result.type = "Exception"
                   /\ net.last.result.detail
                        = [msg |-> "GraphQL errors", errors |-> LastReply.body.errors]
           /\ Done
           /\ err = net.last.result
           /\ activity = None

\* a 200 reply carried both an errors array and data, and the invocation
\* ended on the application error
C2_Witness ==
    /\ net.last # None
    /\ HasErrorsArray(LastReply)
    /\ LastReply.status = 200
    /\ "data" \in DOMAIN LastReply.body
    /\ Done
    /\ err # None
    /\ err.type = "Exception"

\* what a reply would hand to the fetcher
ReplyData(reply) == IF "data" \in DOMAIN reply.body THEN reply.body.data ELSE <<>>

TransportFailed(reply) ==
    \/ reply = ConnectionFailed
    \/ ErrorStatus(reply)
    \/ ~reply.decodes
    \/ "errors" \in DOMAIN reply.body

\* the reply names no user / holds no tag with the wanted slug / holds an
\* item whose timestamp has no zone
LookupFailed(reply) ==
    /\ ~TransportFailed(reply)
    /\ \/ /\ AnsweredKind = "user"
          /\ GetNested(ReplyData(reply), "user", "result", None) = None
       \/ /\ AnsweredKind = "tags"
          /\ args.command \in TopicCommands
          /\ LET tags == GetNested(ReplyData(reply), "tags", "results", <<>>)
             IN  \A i \in 1..Len(tags) : StrLower(tags[i].slug) # StrLower(args.slug)

UncomparableItem(reply) ==
    /\ ~TransportFailed(reply)
    /\ AnsweredKind \in {"posts", "comments", "tag_posts"}
    /\ LET d == ReplyData(reply)
           page == IF "posts" \in DOMAIN d THEN GetNested(d, "posts", "results", <<>>)
                   ELSE GetNested(d, "comments", "results", <<>>)
       IN  \E i \in 1..Len(page) : ~StampAware(page[i].postedAt)

\* a fetch step failed: at the transport, at the lookup, or in the filter
StepFailed ==
    /\ net.last # None
    /\ \/ TransportFailed(LastReply)
       \/ LookupFailed(LastReply)
       \/ UncomparableItem(LastReply)

\* C3: when a fetch step fails the invocation ends there with one error: no
\* report is returned, nothing but the one error line is printed, and no
\* request is issued after the failing one.
C3_NoPartialReport ==
    /\ StepFailed => (Done /\ err # None)
    /\ err # None
         => /\ Done
            /\ activity = None
            /\ Len(stdout) = 1
            /\ stdout[1].kind = "error"
            /\ stdout[1].error = err
            /\ net.inflight = 0
            /\ Len(net.sent) = Len(net.durs)

\* user-activity whose second step, the posts fetch, failed
C3_Witness ==
    /\ args.command = "user-activity"
    /\ StepFailed
    /\ Len(net.sent) = 2
    /\ AnsweredKind = "posts"
    /\ Done
    /\ err # None

Registered(x) ==
    \E i \in 1..Len(FORUMS) :
        FORUMS[i].key = x \/ \E k \in 1..Len(FORUMS[i].aliases) : FORUMS[i].aliases[k] = x

\* a command that queries a forum was given a --forum value that is neither
\* a key nor an alias
UnknownForumGiven ==
    /\ args.command \notin {NoCommand, "list-forums"}
    /\ ~Registered(StrStrip(StrLower(args.forum)))

ErrorOccurred == UnknownForumGiven \/ StepFailed

\* C4 as stated: the exit code is 1 exactly when a transport, application or
\* lookup error occurred, and 0 for every other invocation, the one with no
\* subcommand included.
C4_ExitOneIffError ==
    Done => /\ exit_code.code \in {0, 1}
            /\ exit_code.code = 1 <=> ErrorOccurred
            /\ ErrorOccurred => stdout[Len(stdout)].kind = "error"

\* C4, amended: the exit code is 1 exactly when an error occurred (its
\* message is then printed to standard output) or no subcommand was given
\* (the help is then printed); every other invocation exits with 0.
C4_ExitOneIffErrorOrNoCommand ==
    Done => /\ exit_code.code \in {0, 1}
            /\ exit_code.code = 1 <=> (ErrorOccurred \/ args.command = NoCommand)
            /\ ErrorOccurred => /\ stdout # <<>>
                                /\ stdout[Len(stdout)].kind = "error"
                                /\ stdout[Len(stdout)].error = err
            /\ args.command = NoCommand => stdout = <<[kind |-> "help"]>>

\* an invocation that ended with exit code 1 on a lookup error
C4_Witness ==
    /\ Done
    /\ exit_code.code = 1
    /\ net.last # None
    /\ LookupFailed(LastReply)

\* the display name of the forum a --forum value stands for
ResolvedDisplayName(forum_input) ==
    LET x == StrStrip(StrLower(forum_input))
        i == CHOOSE k \in 1..Len(FORUMS) :
                FORUMS[k].key = x \/ \E a \in 1..Len(FORUMS[k].aliases) : FORUMS[k].aliases[a] = x
    IN  FORUMS[i].name

\* C7: in text mode the banner of a printed report shows the display name of
\* the forum the --forum value resolved to, for canonical keys and aliases
\* alike.
C7_BannerShowsResolvedName ==
    (Done /\ ReportReturned /\ ~args.json)
        => /\ stdout[1].kind = "banner"
           /\ stdout[1].forum_name = ResolvedDisplayName(args.forum)

IsCommentLine(l) == l.kind = "comment"

IsMoreLine(l) == l.kind = "more"

IsCommentsHeading(l) == l.kind = "heading" /\ l.what = "Comments"

\* a user-activity report printed in text mode
UserReportPrinted ==
    Done /\ ReportReturned /\ "comments" \in DOMAIN activity /\ ~args.json

SearchPrinted == Done /\ args.command = "search-topics" /\ err = None

\* the tags the last reply carried
FetchedTags == GetNested(ReplyData(LastReply), "tags", "results", <<>>)

TagMatches(tag, q) == StrContains(StrLower(tag.name), StrLower(q))

\* the ids of the topics printed, in order
PrintedTopicIds ==
    LET lines == SubSeq(stdout, 2, Len(stdout))
    IN  [k \in 1..Len(lines) |-> lines[k].id]

\* the positions of the first k tags of the page matching q
FirstMatching(q, k) ==
    {i \in 1..Len(FetchedTags) :
        /\ TagMatches(FetchedTags[i], q)
        /\ Cardinality({j \in 1..i : TagMatches(FetchedTags[j], q)}) <= k}

RECURSIVE IdsAt(_, _)
\* the ids of the tags at the positions in idx, in page order
IdsAt(tags, idx) ==
    IF idx = {} THEN <<>>
    ELSE LET lo == CHOOSE i \in idx : \A j \in idx : i <= j
         IN  <<tags[lo]._id>> \o IdsAt(tags, idx \ {lo})

\* C9: search_tags returns the first `limit` tags, in fetched order, among
\* those whose name contains q case-insensitively: never more than `limit`
\* tags, and with an empty q the first `limit` tags of the page.
C9_FirstLimitMatches ==
    SearchPrinted
        => /\ PrintedTopicIds = IdsAt(FetchedTags, FirstMatching(args.query, args.limit))
           /\ Len(PrintedTopicIds) <= Max(args.limit, 0)
           /\ args.query = <<>>
                => PrintedTopicIds
                     = [k \in 1..Min(Max(args.limit, 0), Len(FetchedTags)) |-> FetchedTags[k]._id]

RECURSIVE SumFrom(_, _)
\* durs[k] + ... + durs[Len(durs)]
SumFrom(durs, k) == IF k > Len(durs) THEN 0 ELSE durs[k] + SumFrom(durs, k + 1)

\* C10 as stated: the stamped window start is the stamped fetch time minus
\* the requested days, whatever time the fetches take.
C10_WindowIsFetchedAtMinusDays ==
    ReportReturned
        => activity.since_date.wall = activity.fetched_at.wall - args.days * TicksPerDay

\* C10, amended: since_date is the clock read when the lookup has returned,
\* minus the requested days, and fetched_at is the clock read when the last
\* fetch has returned; so fetched_at minus the requested days is since_date
\* plus the time the posts (and comments) fetches took.  since_date carries
\* the local offset, fetched_at is a zone-less local time.
C10_WindowIsFetchedAtMinusDaysAndFetchTime ==
    ReportReturned
        => /\ activity.fetched_at.wall - args.days * TicksPerDay
                = activity.since_date.wall + SumFrom(net.durs, 2)
           /\ activity.since_date.suffix = SuffixOffset(env.off)
           /\ activity.fetched_at.suffix = SuffixNone
           /\ activity.fetched_at.wall = env.now

\* a report whose dependent fetches took time
C10_Witness ==
    /\ ReportReturned
    /\ SumFrom(net.durs, 2) > 0
    /\ activity.since_date.wall < activity.fetched_at.wall - args.days * TicksPerDay

\* C5: every configured key and every alias, in any letter case and with
\* surrounding whitespace, resolves to its canonical key; every string that
\* is no key and no alias once lower-cased and trimmed fails with the
\* unknown-forum error listing the three canonical keys.
C5_ResolveForum ==
    (pc = "returned" /\ call.fn = "resolve_forum")
        => IF call.of # <<>>
           THEN call.ret = [ok |-> TRUE, value |-> call.of]
           ELSE /\ ~call.ret.ok
                /\ call.ret.type = "ValueError"
                /\ call.ret.detail.msg = "Unknown forum"
                /\ call.ret.detail.valid
                     = << <<"l","e","s","s","w","r","o","n","g">>, <<"e","a","f","o","r","u","m">>,
                          <<"a","l","i","g","n","m","e","n","t","f","o","r","u","m">> >>

\* an alias written with capitals and padded on both sides resolved to its
\* canonical key
C5_Witness ==
    /\ pc = "returned"
    /\ call.fn = "resolve_forum"
    /\ call.arg = <<"\t", " ", "E", "A", "-", "F", "O", "R", "U", "M", "\n">>
    /\ call.ret = [ok |-> TRUE, value |-> <<"e","a","f","o","r","u","m">>]

\* the filter call at hand, its input page and its window
FilterReturned == pc \in {"returned", "refiltered"} /\ call.fn \in FilterFns

WindowInstant == call.since.wall - call.since.off

\* positions of the input page inside the window
InWindow == {i \in 1..Len(call.items) : StampInstant(call.items[i].postedAt) >= WindowInstant}

RECURSIVE ItemsAt(_, _)
\* the items at the positions in idx, in page order
ItemsAt(items, idx) ==
    IF idx = {} THEN <<>>
    ELSE LET lo == CHOOSE i \in idx : \A j \in idx : i <= j
         IN  <<items[lo]>> \o ItemsAt(items, idx \ {lo})

\* C6: with a window start W the filter in get_user_posts, get_user_comments
\* and get_posts_by_tag returns exactly the items with posted_at >= W, in
\* their order; filtering the result again changes nothing; a W older than
\* every item returns the page unchanged.  (It raises instead of returning
\* only when an item and W differ in having a zone.)
C6_FilterIsSubsequence ==
    (FilterReturned /\ call.since # None)
        => /\ call.ret.ok
                => /\ call.ret.value = ItemsAt(call.items, InWindow)
                   /\ InWindow = 1..Len(call.items) => call.ret.value = call.items
           /\ ~call.ret.ok
                => \E i \in 1..Len(call.items) :
                      StampAware(call.items[i].postedAt) # call.since.aware
           /\ pc = "refiltered" => call.again = call.ret

\* a page of three with the first item older than W, the second exactly at
\* W and the third newer, filtered and filtered again
C6_Witness ==
    /\ pc = "refiltered"
    /\ call.fn = "get_user_comments"
    /\ call.since # None
    /\ Len(call.items) = 3
    /\ StampInstant(call.items[1].postedAt) < WindowInstant
    /\ StampInstant(call.items[2].postedAt) = WindowInstant
    /\ StampInstant(call.items[3].postedAt) > WindowInstant
    /\ call.ret = [ok |-> TRUE, value |-> <<call.items[2], call.items[3]>>]

\* the kinds of the requests issued so far, in order
SentKinds == [k \in 1..Len(net.sent) |-> net.sent[k].kind]

\* the fetchers a subcommand calls, in call order, each by the kind of the one
\* request it posts: the lookup first, then the fetches that take its id
Fetchers(command) ==
    IF command = "user" THEN <<"user">>
    ELSE IF command = "user-activity" THEN <<"user", "posts", "comments">>
    ELSE IF command = "posts" THEN <<"user", "posts">>
    ELSE IF command = "comments" THEN <<"user", "comments">>
    ELSE IF command = "topic" THEN <<"tags">>
    ELSE IF command = "topic-activity" THEN <<"tags", "tag_posts">>
    ELSE IF command = "search-topics" THEN <<"tags">>
    ELSE <<>>

IsPrefix(s, t) == Len(s) <= Len(t) /\ \A k \in 1..Len(s) : s[k] = t[k]

\* the request at position k takes the id of a looked-up user or tag
Dependent(k) == net.sent[k].kind \in {"posts", "comments", "tag_posts"}

\* C11: the requests of one invocation go out one after another, never two
\* in flight and never more than three in all; each fetcher the subcommand
\* calls posts exactly one request, in call order; a fetch of a user's posts
\* or comments or of a tag's posts goes out only once the lookup has been
\* answered and has returned the record whose id the fetch carries;
\* list-forums posts nothing; an invocation that ends without an error has
\* posted one request per fetcher and has had every one answered.
C11_RequestsOneAtATime ==
    /\ net.inflight \in {0, 1}
    /\ Len(net.sent) = Len(net.durs) + net.inflight
    /\ Len(net.sent) <= 3
    /\ IsPrefix(SentKinds, Fetchers(args.command))
    /\ args.command = "list-forums" => net.sent = <<>>
    /\ \A k \in 1..Len(net.sent) :
          Dependent(k)
              => /\ k >= 2
                 /\ Len(net.durs) >= 1
                 /\ ~Dependent(1)
                 /\ IF net.sent[k].kind = "tag_posts"
                    THEN loc.tag # None /\ net.sent[k].variables.tagId = loc.tag._id
                    ELSE loc.user # None /\ net.sent[k].variables.userId = loc.user._id
    /\ (Done /\ ~ErrorOccurred /\ args.command # NoCommand)
          => /\ SentKinds = Fetchers(args.command)
             /\ net.inflight = 0

\* a user-activity run that ended well: three requests, lookup, posts and
\* comments in that order, every one answered, the two fetches carrying the
\* looked-up user's id
C11_Witness ==
    /\ Done
    /\ args.command = "user-activity"
    /\ exit_code.code = 0
    /\ SentKinds = <<"user", "posts", "comments">>
    /\ Len(net.durs) = 3
    /\ net.inflight = 0
    /\ net.sent[2].variables.userId = loc.user._id
    /\ net.sent[3].variables.userId = loc.user._id

====
